---- MODULE Spec2Model ----
(***************************************************************************)
(* State-machine model of PIDController (src/PIDController.cpp).           *)
(*                                                                         *)
(* A double is modelled as an exact rational <<n, d>> in lowest terms with *)
(* d > 0.  The two boost cpu_timer members are modelled as records         *)
(* [is_stopped, wall] where wall counts clock ticks; TicksPerSec ticks     *)
(* make one second, so the conversion elapsed().wall / 1e9 is the rational *)
(* wall / TicksPerSec.  abs() on line 245 is the floating-point absolute   *)
(* value.  calc is only called with a non-zero setpoint and a non-zero     *)
(* sampling time (the divisions on lines 238 and 256).                     *)
(***************************************************************************)
EXTENDS Integers, Sequences, FiniteSets, TLC

\* ------------------------------------------------------------------ bounds
\* clock ticks per second (resolution of the modelled wall clock)
TicksPerSec == 2
\* the sampling timer is followed for at most MaxWall ticks after a start
MaxWall == 1
\* calc calls followed after construction or the last reset
MaxCalls == 2

\* ------------------------------------------------------- double arithmetic
RECURSIVE Gcd(_, _)
Gcd(a, b) == IF b = 0 THEN a ELSE Gcd(b, a % b)

IAbs(i) == IF i < 0 THEN -i ELSE i

\* the rational n/d (d # 0) in lowest terms with a positive denominator
Rat(n, d) ==
    LET g == Gcd(IAbs(n), IAbs(d))
        s == IF d < 0 THEN -1 ELSE 1
    IN  <<(s * n) \div g, (s * d) \div g>>

R(i) == <<i, 1>>

Add(x, y) == Rat(x[1] * y[2] + y[1] * x[2], x[2] * y[2])
Sub(x, y) == Rat(x[1] * y[2] - y[1] * x[2], x[2] * y[2])
Mul(x, y) == Rat(x[1] * y[1], x[2] * y[2])
Div(x, y) == Rat(x[1] * y[2], x[2] * y[1])
Less(x, y) == x[1] * y[2] < y[1] * x[2]
LessEq(x, y) == x[1] * y[2] <= y[1] * x[2]
abs(x) == IF x[1] < 0 THEN <<-x[1], x[2]>> ELSE x

\* ------------------------------------------------------------------ timers
\* boost::timer::cpu_timer as used by the controller
start(t) == [is_stopped |-> FALSE, wall |-> 0]
stop(t) == [t EXCEPT !.is_stopped = TRUE]
\* (timer.elapsed().wall) / 1e9
elapsed(t) == Rat(t.wall, TicksPerSec)

\* --------------------------------------------------------------- limiter
\* limiter without the test against the upper limit
limiter_NoUpper(value, lowerLimit, upperLimit) ==
    IF lowerLimit = upperLimit THEN value
    ELSE IF Less(value, lowerLimit) THEN lowerLimit
    ELSE value

\* limiter with the two comparisons the wrong way round
limiter_Swapped(value, lowerLimit, upperLimit) ==
    IF lowerLimit = upperLimit THEN value
    ELSE IF Less(lowerLimit, value) THEN lowerLimit
    ELSE IF Less(value, upperLimit) THEN upperLimit
    ELSE value

\* limiter without the test for equal limits
limiter_NoSentinel(value, lowerLimit, upperLimit) ==
    IF Less(value, lowerLimit) THEN lowerLimit
    ELSE IF Less(upperLimit, value) THEN upperLimit
    ELSE value

limiter(value, lowerLimit, upperLimit) ==
    IF lowerLimit = upperLimit THEN value
    ELSE IF Less(value, lowerLimit) THEN lowerLimit
    ELSE IF Less(upperLimit, value) THEN upperLimit
    ELSE value

\* --------------------------------------------------------------- mutators
\* setGains that also starts a new performance episode
setGains_NewEpisode(self, kp, ki, kd) ==
    [self EXCEPT !.kp = kp, !.ki = ki, !.kd = kd,
                 !.peakTime = R(-1), !.settlingTime = R(-1), !.percentOvershoot = R(0)]

setGains(self, kp, ki, kd) ==
    [self EXCEPT !.kp = kp, !.ki = ki, !.kd = kd]

setInputLimits(self, lowerInputLimit, upperInputLimit) ==
    [self EXCEPT !.lowerInputLimit = lowerInputLimit,
                 !.upperInputLimit = upperInputLimit]

\* setOutputLimits that brings the stored integrator into the new range
setOutputLimits_Reclamps(self, lowerOutputLimit, upperOutputLimit) ==
    [self EXCEPT !.lowerOutputLimit = lowerOutputLimit,
                 !.upperOutputLimit = upperOutputLimit,
                 !.integrator = limiter(self.integrator, lowerOutputLimit, upperOutputLimit)]

setOutputLimits(self, lowerOutputLimit, upperOutputLimit) ==
    [self EXCEPT !.lowerOutputLimit = lowerOutputLimit,
                 !.upperOutputLimit = upperOutputLimit]

\* targetSetpoint with sample_timer.resume() in place of sample_timer.start()
targetSetpoint_ResumesSampleTimer(self, setpoint) ==
    [self EXCEPT !.setpoint = limiter(setpoint, self.lowerInputLimit, self.upperInputLimit),
                 !.peakTime = R(-1),
                 !.settlingTime = R(-1),
                 !.percentOvershoot = R(0),
                 !.sample_timer = [self.sample_timer EXCEPT !.is_stopped = FALSE],
                 !.performance_timer = start(self.performance_timer)]

\* targetSetpoint without peakTime = -1
targetSetpoint_KeepsPeakTime(self, setpoint) ==
    [self EXCEPT !.setpoint = limiter(setpoint, self.lowerInputLimit, self.upperInputLimit),
                 !.settlingTime = R(-1),
                 !.percentOvershoot = R(0),
                 !.sample_timer = start(self.sample_timer),
                 !.performance_timer = start(self.performance_timer)]

\* targetSetpoint that stores the target as given
targetSetpoint_Unclamped(self, setpoint) ==
    [self EXCEPT !.setpoint = setpoint,
                 !.peakTime = R(-1),
                 !.settlingTime = R(-1),
                 !.percentOvershoot = R(0),
                 !.sample_timer = start(self.sample_timer),
                 !.performance_timer = start(self.performance_timer)]

\* targetSetpoint that also clears the integrator
targetSetpoint_ClearsIntegrator(self, setpoint) ==
    [self EXCEPT !.setpoint = limiter(setpoint, self.lowerInputLimit, self.upperInputLimit),
                 !.integrator = R(0),
                 !.peakTime = R(-1),
                 !.settlingTime = R(-1),
                 !.percentOvershoot = R(0),
                 !.sample_timer = start(self.sample_timer),
                 !.performance_timer = start(self.performance_timer)]

targetSetpoint(self, setpoint) ==
    [self EXCEPT !.setpoint = limiter(setpoint, self.lowerInputLimit, self.upperInputLimit),
                 !.peakTime = R(-1),
                 !.settlingTime = R(-1),
                 !.percentOvershoot = R(0),
                 !.sample_timer = start(self.sample_timer),
                 !.performance_timer = start(self.performance_timer)]

\* reset that leaves the integrator as it is
reset_KeepsIntegrator(self) ==
    [self EXCEPT !.setpoint = R(0),
                 !.lastSetpoint = R(0),
                 !.peakTime = R(-1),
                 !.settlingTime = R(-1),
                 !.percentOvershoot = R(0),
                 !.sample_timer = stop(self.sample_timer),
                 !.performance_timer = stop(self.performance_timer)]

reset(self) ==
    [self EXCEPT !.setpoint = R(0),
                 !.lastSetpoint = R(0),
                 !.integrator = R(0),
                 !.peakTime = R(-1),
                 !.settlingTime = R(-1),
                 !.percentOvershoot = R(0),
                 !.sample_timer = stop(self.sample_timer),
                 !.performance_timer = stop(self.performance_timer)]

hasSettled(self) == self.settlingTime # R(-1)

getSetpoint(self) == self.setpoint
getKp(self) == self.kp
getKi(self) == self.ki
getKd(self) == self.kd

\* ------------------------------------------------------------------- calc
\* if(percent > percentOvershoot && percent > 0)
overshoots(self, percent) ==
    Less(self.percentOvershoot, percent) /\ Less(R(0), percent)

\* settling test with <= in place of <
settles_Closed(self, percent) ==
    LessEq(abs(percent), Rat(5, 100)) /\ self.settlingTime = R(-1)

\* settling test without the settlingTime == -1 condition
settles_Again(self, percent) ==
    Less(abs(percent), Rat(5, 100))

\* if(abs(percent) < 0.05 && settlingTime == -1)
settles(self, percent) ==
    Less(abs(percent), Rat(5, 100)) /\ self.settlingTime = R(-1)

\* accumulation without the limiter
integrate_Unlimited(self, error, samplingTime) ==
    Add(self.integrator, Mul(error, samplingTime))

\* integrator += (error * samplingTime); integrator = limiter(integrator, ...)
integrate(self, error, samplingTime) ==
    limiter(Add(self.integrator, Mul(error, samplingTime)),
            self.lowerOutputLimit, self.upperOutputLimit)

\* control output from the integrator as it was before this call
control_OldIntegrator(self, error, integrator, differentiator) ==
    limiter(Sub(Add(Mul(self.kp, error), Mul(self.ki, self.integrator)),
                Mul(self.kd, differentiator)),
            self.lowerOutputLimit, self.upperOutputLimit)

\* controlVariable = kp * error + ki * integrator - kd * differentiator, limited
control(self, error, integrator, differentiator) ==
    limiter(Sub(Add(Mul(self.kp, error), Mul(self.ki, integrator)),
                Mul(self.kd, differentiator)),
            self.lowerOutputLimit, self.upperOutputLimit)

\* calc without lastSetpoint = setpoint
calc_KeepsLastSetpoint(self, processVariable) ==
    LET sample1 == stop(self.sample_timer)
        percent == Sub(Div(processVariable, self.setpoint), R(1))
        over == overshoots(self, percent)
        percentOvershoot1 == IF over THEN Div(processVariable, self.setpoint)
                             ELSE self.percentOvershoot
        peakTime1 == IF over THEN elapsed(self.performance_timer) ELSE self.peakTime
        settle == settles(self, percent)
        performance1 == IF settle THEN stop(self.performance_timer)
                        ELSE self.performance_timer
        settlingTime1 == IF settle THEN elapsed(performance1) ELSE self.settlingTime
        cout == IF settle THEN << <<peakTime1, percentOvershoot1, settlingTime1>> >>
                ELSE << >>
        error == Sub(self.setpoint, processVariable)
        samplingTime == elapsed(sample1)
        differentiator == Div(Sub(self.setpoint, self.lastSetpoint), samplingTime)
        integrator1 == integrate(self, error, samplingTime)
    IN  [self |-> [self EXCEPT !.percentOvershoot = percentOvershoot1,
                               !.peakTime = peakTime1,
                               !.settlingTime = settlingTime1,
                               !.performance_timer = performance1,
                               !.integrator = integrator1,
                               !.sample_timer = start(sample1)],
         controlVariable |-> control(self, error, integrator1, differentiator),
         cout |-> cout]

\* calc without performance_timer.stop()
calc_NoStop(self, processVariable) ==
    LET sample1 == stop(self.sample_timer)
        percent == Sub(Div(processVariable, self.setpoint), R(1))
        over == overshoots(self, percent)
        percentOvershoot1 == IF over THEN Div(processVariable, self.setpoint)
                             ELSE self.percentOvershoot
        peakTime1 == IF over THEN elapsed(self.performance_timer) ELSE self.peakTime
        settle == settles(self, percent)
        performance1 == IF settle THEN self.performance_timer
                        ELSE self.performance_timer
        settlingTime1 == IF settle THEN elapsed(performance1) ELSE self.settlingTime
        cout == IF settle THEN << <<peakTime1, percentOvershoot1, settlingTime1>> >>
                ELSE << >>
        error == Sub(self.setpoint, processVariable)
        samplingTime == elapsed(sample1)
        differentiator == Div(Sub(self.setpoint, self.lastSetpoint), samplingTime)
        integrator1 == integrate(self, error, samplingTime)
    IN  [self |-> [self EXCEPT !.percentOvershoot = percentOvershoot1,
                               !.peakTime = peakTime1,
                               !.settlingTime = settlingTime1,
                               !.performance_timer = performance1,
                               !.integrator = integrator1,
                               !.lastSetpoint = self.setpoint,
                               !.sample_timer = start(sample1)],
         controlVariable |-> control(self, error, integrator1, differentiator),
         cout |-> cout]

\* calc with setpoint = lastSetpoint in place of lastSetpoint = setpoint
calc_AssignsSetpoint(self, processVariable) ==
    LET sample1 == stop(self.sample_timer)
        percent == Sub(Div(processVariable, self.setpoint), R(1))
        over == overshoots(self, percent)
        percentOvershoot1 == IF over THEN Div(processVariable, self.setpoint)
                             ELSE self.percentOvershoot
        peakTime1 == IF over THEN elapsed(self.performance_timer) ELSE self.peakTime
        settle == settles(self, percent)
        performance1 == IF settle THEN stop(self.performance_timer)
                        ELSE self.performance_timer
        settlingTime1 == IF settle THEN elapsed(performance1) ELSE self.settlingTime
        cout == IF settle THEN << <<peakTime1, percentOvershoot1, settlingTime1>> >>
                ELSE << >>
        error == Sub(self.setpoint, processVariable)
        samplingTime == elapsed(sample1)
        differentiator == Div(Sub(self.setpoint, self.lastSetpoint), samplingTime)
        integrator1 == integrate(self, error, samplingTime)
    IN  [self |-> [self EXCEPT !.percentOvershoot = percentOvershoot1,
                               !.peakTime = peakTime1,
                               !.settlingTime = settlingTime1,
                               !.performance_timer = performance1,
                               !.integrator = integrator1,
                               !.setpoint = self.lastSetpoint,
                               !.sample_timer = start(sample1)],
         controlVariable |-> control(self, error, integrator1, differentiator),
         cout |-> cout]

\* the result: the object after the call, the returned controlVariable and
\* the reports written to std::cout (<<peakTime, percentOvershoot, settlingTime>>)
calc(self, processVariable) ==
    LET sample1 == stop(self.sample_timer)
        percent == Sub(Div(processVariable, self.setpoint), R(1))
        over == overshoots(self, percent)
        percentOvershoot1 == IF over THEN Div(processVariable, self.setpoint)
                             ELSE self.percentOvershoot
        peakTime1 == IF over THEN elapsed(self.performance_timer) ELSE self.peakTime
        settle == settles(self, percent)
        performance1 == IF settle THEN stop(self.performance_timer)
                        ELSE self.performance_timer
        settlingTime1 == IF settle THEN elapsed(performance1) ELSE self.settlingTime
        cout == IF settle THEN << <<peakTime1, percentOvershoot1, settlingTime1>> >>
                ELSE << >>
        error == Sub(self.setpoint, processVariable)
        samplingTime == elapsed(sample1)
        differentiator == Div(Sub(self.setpoint, self.lastSetpoint), samplingTime)
        integrator1 == integrate(self, error, samplingTime)
    IN  [self |-> [self EXCEPT !.percentOvershoot = percentOvershoot1,
                               !.peakTime = peakTime1,
                               !.settlingTime = settlingTime1,
                               !.performance_timer = performance1,
                               !.integrator = integrator1,
                               !.lastSetpoint = self.setpoint,
                               !.sample_timer = start(sample1)],
         controlVariable |-> control(self, error, integrator1, differentiator),
         cout |-> cout]

\* ------------------------------------------------------------ constructors
\* a cpu_timer member starts running when it is constructed
NewTimer == [is_stopped |-> FALSE, wall |-> 0]

\* the members before the constructor body runs; every double is assigned
\* by the body of the four value constructors before it is read
Members == [kp |-> R(0), ki |-> R(0), kd |-> R(0),
            setpoint |-> R(0), lastSetpoint |-> R(0),
            lowerInputLimit |-> R(0), upperInputLimit |-> R(0),
            lowerOutputLimit |-> R(0), upperOutputLimit |-> R(0),
            integrator |-> R(0),
            peakTime |-> R(0), settlingTime |-> R(0), percentOvershoot |-> R(0),
            sample_timer |-> NewTimer, performance_timer |-> NewTimer]

PIDController0 ==
    reset(setOutputLimits(setInputLimits(setGains(Members, R(0), R(0), R(0)),
                                         R(-1), R(-1)), R(-1), R(-1)))

PIDController3(kp, ki, kd) ==
    reset(setOutputLimits(setInputLimits(setGains(Members, kp, ki, kd),
                                         R(-1), R(-1)), R(-1), R(-1)))

PIDController5(kp, ki, kd, lowerOutputLimit, upperOutputLimit) ==
    reset(setOutputLimits(setInputLimits(setGains(Members, kp, ki, kd),
                                         R(-1), R(-1)),
                          lowerOutputLimit, upperOutputLimit))

PIDController7(kp, ki, kd, lowerInputLimit, upperInputLimit, lowerOutputLimit, upperOutputLimit) ==
    reset(setOutputLimits(setInputLimits(setGains(Members, kp, ki, kd),
                                         lowerInputLimit, upperInputLimit),
                          lowerOutputLimit, upperOutputLimit))

\* the copy constructor; setpoint is not assigned, so the copy's setpoint is
\* whatever the storage held (indeterminate)
PIDControllerCopy(orig, indeterminate) ==
    LET a == setGains([Members EXCEPT !.setpoint = indeterminate],
                      orig.kp, orig.ki, orig.kd)
        b == setInputLimits(a, orig.lowerInputLimit, orig.upperInputLimit)
        c == setOutputLimits(b, orig.lowerOutputLimit, orig.lowerInputLimit)
    IN  [c EXCEPT !.integrator = orig.integrator,
                  !.lastSetpoint = orig.lastSetpoint,
                  !.peakTime = orig.peakTime,
                  !.settlingTime = orig.settlingTime,
                  !.percentOvershoot = orig.percentOvershoot]

\* ------------------------------------------------------------------ inputs
GainChoices == { <<R(0), R(0), R(0)>>, <<R(1), R(2), R(3)>> }
InputLimitChoices == { <<R(-1), R(-1)>>, <<R(2), R(8)>> }
OutputLimitChoices == { <<R(-1), R(-1)>>, <<R(-10), R(10)>> }
Setpoints == { R(-3), R(5), R(20) }
ProcessVariables == { R(19), R(20), R(22) }
LimiterValues == { R(-11), R(-10), R(-3), Rat(-1, 2), R(0), R(2), Rat(7, 2), R(8), R(10), R(15) }

\* ------------------------------------------------------------------- state
VARIABLES
    this,        \* the controller object
    copies,      \* << >>, or <<c>> for a live copy c made by the copy constructor
    op,          \* the controller operation executed last
    arg,         \* <<a>> when op is targetSetpoint or calc called with a, else << >>
    ret,         \* <<r>> when op is calc and returned r, else << >>
    reports,     \* the reports written to std::cout in the current episode
    calls,       \* calc calls since construction or the last reset
    maxPercent,  \* << >>, or <<m>>: the largest processVariable/setpoint - 1 of the episode
    inBand,      \* a calc of the episode had 0.95*s <= processVariable <= 1.05*s
    inOpenBand,  \* a calc of the episode had 0.95*s < processVariable < 1.05*s
    sinceSample, \* clock ticks since the last calc returned or targetSetpoint was called
    setpointChanged, \* targetSetpoint or reset changed setpoint since the last calc
    lim          \* the last direct application of limiter: arguments and result

vars == <<this, copies, op, arg, ret, reports, calls, maxPercent, inBand, inOpenBand,
          sinceSample, setpointChanged, lim>>

episode == <<reports, maxPercent, inBand, inOpenBand>>

NoLim == [value |-> R(0), lowerLimit |-> R(0), upperLimit |-> R(0), result |-> R(0)]

NewEpisode ==
    /\ reports' = << >>
    /\ maxPercent' = << >>
    /\ inBand' = FALSE
    /\ inOpenBand' = FALSE

Constructed ==
    {PIDController0}
    \cup {PIDController3(g[1], g[2], g[3]) : g \in GainChoices}
    \cup {PIDController5(g[1], g[2], g[3], o[1], o[2]) :
            g \in GainChoices, o \in OutputLimitChoices}
    \cup {PIDController7(g[1], g[2], g[3], i[1], i[2], o[1], o[2]) :
            g \in GainChoices, i \in InputLimitChoices, o \in OutputLimitChoices}

Init ==
    /\ this \in Constructed
    /\ copies = << >>
    /\ op = "PIDController"
    /\ arg = << >>
    /\ ret = << >>
    /\ reports = << >>
    /\ calls = 0
    /\ maxPercent = << >>
    /\ inBand = FALSE
    /\ inOpenBand = FALSE
    /\ sinceSample = 0
    /\ setpointChanged = FALSE
    /\ lim = NoLim

\* ----------------------------------------------------------------- actions
SetGains ==
    /\ copies = << >>
    /\ \E g \in GainChoices : this' = setGains(this, g[1], g[2], g[3])
    /\ op' = "setGains"
    /\ arg' = << >>
    /\ ret' = << >>
    /\ UNCHANGED <<copies, episode, calls, sinceSample, setpointChanged, lim>>

SetInputLimits ==
    /\ copies = << >>
    /\ \E i \in InputLimitChoices : this' = setInputLimits(this, i[1], i[2])
    /\ op' = "setInputLimits"
    /\ arg' = << >>
    /\ ret' = << >>
    /\ UNCHANGED <<copies, episode, calls, sinceSample, setpointChanged, lim>>

SetOutputLimits ==
    /\ copies = << >>
    /\ \E o \in OutputLimitChoices : this' = setOutputLimits(this, o[1], o[2])
    /\ op' = "setOutputLimits"
    /\ arg' = << >>
    /\ ret' = << >>
    /\ UNCHANGED <<copies, episode, calls, sinceSample, setpointChanged, lim>>

TargetSetpoint ==
    /\ copies = << >>
    /\ \E setpoint \in Setpoints :
         /\ this' = targetSetpoint(this, setpoint)
         /\ arg' = <<setpoint>>
    /\ op' = "targetSetpoint"
    /\ NewEpisode
    /\ ret' = << >>
    /\ sinceSample' = 0
    /\ setpointChanged' = (setpointChanged \/ getSetpoint(this') # getSetpoint(this))
    /\ UNCHANGED <<copies, calls, lim>>

Reset ==
    /\ copies = << >>
    /\ this' = reset(this)
    /\ op' = "reset"
    /\ NewEpisode
    /\ calls' = 0
    /\ arg' = << >>
    /\ ret' = << >>
    /\ setpointChanged' = (setpointChanged \/ getSetpoint(this') # getSetpoint(this))
    /\ UNCHANGED <<copies, sinceSample, lim>>

\* observation of the episode, independent of calc: the band ends 0.95*s and
\* 1.05*s (in either order when s < 0) and the larger of two values
BandLow(s) == IF Less(s, R(0)) THEN Mul(Rat(105, 100), s) ELSE Mul(Rat(95, 100), s)
BandHigh(s) == IF Less(s, R(0)) THEN Mul(Rat(95, 100), s) ELSE Mul(Rat(105, 100), s)

Max(x, y) == IF Less(x, y) THEN y ELSE x

Calc ==
    /\ copies = << >>
    /\ this.setpoint # R(0)
    /\ this.sample_timer.wall > 0
    /\ calls < MaxCalls
    /\ \E processVariable \in ProcessVariables :
         LET r == calc(this, processVariable)
             p == Sub(Div(processVariable, this.setpoint), R(1))
         IN  /\ this' = r.self
             /\ ret' = <<r.controlVariable>>
             /\ reports' = reports \o r.cout
             /\ arg' = <<processVariable>>
             /\ maxPercent' = IF maxPercent = << >> THEN <<p>>
                              ELSE <<Max(maxPercent[1], p)>>
             /\ inBand' = (inBand \/ (/\ LessEq(BandLow(this.setpoint), processVariable)
                                      /\ LessEq(processVariable, BandHigh(this.setpoint))))
             /\ inOpenBand' = (inOpenBand \/ (/\ Less(BandLow(this.setpoint), processVariable)
                                              /\ Less(processVariable, BandHigh(this.setpoint))))
    /\ calls' = calls + 1
    /\ op' = "calc"
    /\ sinceSample' = 0
    /\ setpointChanged' = FALSE
    /\ UNCHANGED <<copies, lim>>

\* the wall clock advances: every running timer reads one tick more
Advance(t) == IF t.is_stopped THEN t ELSE [t EXCEPT !.wall = t.wall + 1]

Tick ==
    /\ copies = << >>
    /\ ~this.sample_timer.is_stopped
    /\ this.sample_timer.wall < MaxWall
    /\ this' = [this EXCEPT !.sample_timer = Advance(this.sample_timer),
                            !.performance_timer = Advance(this.performance_timer)]
    /\ sinceSample' = sinceSample + 1
    /\ UNCHANGED <<copies, op, arg, ret, episode, calls, setpointChanged, lim>>

Copy ==
    /\ copies = << >>
    /\ \E indeterminate \in {R(0), R(20)} :
         copies' = <<PIDControllerCopy(this, indeterminate)>>
    /\ UNCHANGED <<this, op, arg, ret, episode, calls, sinceSample, setpointChanged, lim>>

\* ~PIDController of the copy
Destroy ==
    /\ copies # << >>
    /\ copies' = << >>
    /\ UNCHANGED <<this, op, arg, ret, episode, calls, sinceSample, setpointChanged, lim>>

Next ==
    \/ SetGains
    \/ SetInputLimits
    \/ SetOutputLimits
    \/ TargetSetpoint
    \/ Reset
    \/ Calc
    \/ Tick

Spec == Init /\ [][Next]_vars

\* the same controller, with copies of it constructed and destroyed
CopyNext ==
    \/ Next
    \/ Copy
    \/ Destroy

CopySpec == Init /\ [][CopyNext]_vars

\* ------------------------------------------- limiter applied to free inputs
LimiterInit ==
    /\ this = PIDController0
    /\ copies = << >>
    /\ op = "PIDController"
    /\ arg = << >>
    /\ ret = << >>
    /\ reports = << >>
    /\ calls = 0
    /\ maxPercent = << >>
    /\ inBand = FALSE
    /\ inOpenBand = FALSE
    /\ sinceSample = 0
    /\ setpointChanged = FALSE
    /\ lim = NoLim

Limiter ==
    /\ \E value \in LimiterValues, lowerLimit \in LimiterValues, upperLimit \in LimiterValues :
         lim' = [value |-> value, lowerLimit |-> lowerLimit, upperLimit |-> upperLimit,
                 result |-> limiter(value, lowerLimit, upperLimit)]
    /\ op' = "limiter"
    /\ UNCHANGED <<this, copies, arg, ret, episode, calls, sinceSample, setpointChanged>>

LimiterNext == Limiter

LimiterSpec == LimiterInit /\ [][LimiterNext]_vars

\* ------------------------------------------------------------------ claims
InRange(x, lo, hi) == LessEq(lo, x) /\ LessEq(x, hi)

OutputLimited == Less(this.lowerOutputLimit, this.upperOutputLimit)
InputLimited == Less(this.lowerInputLimit, this.upperInputLimit)

\* C1: with output limits lo < hi in force, the value calc returns and the
\* integrator it leaves behind both lie in [lo, hi].
C1_AntiWindup ==
    (op = "calc" /\ OutputLimited) =>
        /\ InRange(ret[1], this.lowerOutputLimit, this.upperOutputLimit)
        /\ InRange(this.integrator, this.lowerOutputLimit, this.upperOutputLimit)

\* a second calc under sustained error leaves integrator and output at the limit
C1_Witness ==
    /\ op = "calc"
    /\ calls = 2
    /\ this.lowerOutputLimit = R(-10)
    /\ this.upperOutputLimit = R(10)
    /\ this.integrator = R(-10)
    /\ ret = <<R(-10)>>

\* C2: after every calc of an episode, percentOvershoot holds the largest
\* overshoot ratio seen so far in the episode (1 + the largest percent, when
\* that is positive), i.e. it was updated by exactly the calls whose percent
\* was positive and above every earlier one; with no overshoot yet it is 0
\* and peakTime is -1.
C2_RunningMaximum ==
    maxPercent # << >> =>
        IF Less(R(0), maxPercent[1])
        THEN /\ this.percentOvershoot = Add(maxPercent[1], R(1))
             /\ this.peakTime # R(-1)
        ELSE /\ this.percentOvershoot = R(0)
             /\ this.peakTime = R(-1)

\* C3 as claimed: in an episode with setpoint s > 0, hasSettled() is true
\* after a calc exactly when that calc or an earlier one of the episode had
\* its processVariable in the closed band [0.95*s, 1.05*s].
C3_SettledClosedBand ==
    (Less(R(0), this.setpoint) /\ maxPercent # << >>) =>
        (hasSettled(this) <=> inBand)

\* C3 as amended: the same with the open band 0.95*s < processVariable < 1.05*s.
C3_SettledOpenBand ==
    (Less(R(0), this.setpoint) /\ maxPercent # << >>) =>
        (hasSettled(this) <=> inOpenBand)

\* settled by an earlier call, and still settled after a call outside the band
C3_Witness ==
    /\ op = "calc"
    /\ this.setpoint = R(20)
    /\ arg = <<R(22)>>
    /\ inOpenBand
    /\ hasSettled(this)

\* C4: in an episode at most one report is written; a report is written by
\* the calc that takes hasSettled() from false to true, by every such calc,
\* and it carries the three values as stored; a calc in a settled episode
\* leaves settlingTime as it is.
C4_SingleReport ==
    [][ /\ Len(reports') <= 1
        /\ (reports' # reports /\ reports' # << >>) =>
              /\ op' = "calc"
              /\ ~hasSettled(this)
              /\ hasSettled(this')
              /\ reports' = << <<this'.peakTime, this'.percentOvershoot,
                                this'.settlingTime>> >>
        /\ (~hasSettled(this) /\ hasSettled(this')) => Len(reports') = 1
        /\ (op' = "calc" /\ hasSettled(this)) =>
              /\ this'.settlingTime = this.settlingTime
              /\ reports' = reports
      ]_vars

\* a calc that found a peak after the report of its episode was written
C4_Witness ==
    /\ op = "calc"
    /\ hasSettled(this)
    /\ Len(reports) = 1
    /\ reports[1][1] = R(-1)
    /\ this.peakTime # R(-1)

\* C5 as claimed: once hasSettled() is true it stays true over every step
\* that is not a targetSetpoint call.
C5_SettledUntilSetpoint ==
    [][ (hasSettled(this) /\ op' # "targetSetpoint") => hasSettled(this') ]_vars

\* C5 as amended: once hasSettled() is true it stays true over every step
\* that is neither a targetSetpoint call nor a reset call.
C5_SettledUntilSetpointOrReset ==
    [][ (hasSettled(this) /\ op' \notin {"targetSetpoint", "reset"}) =>
            hasSettled(this') ]_vars

\* a settled controller whose gains were then set again
C5_Witness ==
    /\ op = "setGains"
    /\ hasSettled(this)
    /\ this.kp = R(1)

\* C6: reset() puts setpoint, lastSetpoint and integrator to 0, peakTime and
\* settlingTime to -1, percentOvershoot to 0, stops both timers, and leaves
\* the gains and the four limits as they were.
C6_Reset ==
    [][ Reset =>
          /\ this'.setpoint = R(0)
          /\ this'.lastSetpoint = R(0)
          /\ this'.integrator = R(0)
          /\ this'.peakTime = R(-1)
          /\ this'.settlingTime = R(-1)
          /\ this'.percentOvershoot = R(0)
          /\ ~hasSettled(this')
          /\ this'.sample_timer.is_stopped
          /\ this'.performance_timer.is_stopped
          /\ getKp(this') = getKp(this)
          /\ getKi(this') = getKi(this)
          /\ getKd(this') = getKd(this)
          /\ this'.lowerInputLimit = this.lowerInputLimit
          /\ this'.upperInputLimit = this.upperInputLimit
          /\ this'.lowerOutputLimit = this.lowerOutputLimit
          /\ this'.upperOutputLimit = this.upperOutputLimit
      ]_vars

\* a reset of a configured controller whose episode had run for some time
C6_Witness ==
    /\ op = "reset"
    /\ this.performance_timer.wall > 0
    /\ this.kp = R(1)
    /\ this.lowerInputLimit = R(2)
    /\ this.upperOutputLimit = R(10)

\* C7: with input limits lo < hi in force, targetSetpoint(t) stores lo when
\* t < lo, hi when t > hi and t otherwise.
C7_SetpointClamped ==
    (op = "targetSetpoint" /\ InputLimited) =>
        getSetpoint(this) =
            IF Less(arg[1], this.lowerInputLimit) THEN this.lowerInputLimit
            ELSE IF Less(this.upperInputLimit, arg[1]) THEN this.upperInputLimit
            ELSE arg[1]

\* a target above the upper input limit was stored as the limit
C7_Witness ==
    /\ op = "targetSetpoint"
    /\ this.lowerInputLimit = R(2)
    /\ this.upperInputLimit = R(8)
    /\ arg = <<R(20)>>
    /\ getSetpoint(this) = R(8)

\* C8: targetSetpoint puts peakTime and settlingTime to -1 and
\* percentOvershoot to 0, restarts both timers from zero, and leaves
\* integrator, lastSetpoint, the gains and the limits as they were.
C8_TargetSetpoint ==
    [][ TargetSetpoint =>
          /\ this'.peakTime = R(-1)
          /\ this'.settlingTime = R(-1)
          /\ this'.percentOvershoot = R(0)
          /\ ~hasSettled(this')
          /\ this'.sample_timer = [is_stopped |-> FALSE, wall |-> 0]
          /\ this'.performance_timer = [is_stopped |-> FALSE, wall |-> 0]
          /\ this'.integrator = this.integrator
          /\ this'.lastSetpoint = this.lastSetpoint
          /\ this'.kp = this.kp
          /\ this'.ki = this.ki
          /\ this'.kd = this.kd
          /\ this'.lowerInputLimit = this.lowerInputLimit
          /\ this'.upperInputLimit = this.upperInputLimit
          /\ this'.lowerOutputLimit = this.lowerOutputLimit
          /\ this'.upperOutputLimit = this.upperOutputLimit
      ]_vars

\* a new episode started on a controller with a non-zero integrator
C8_Witness ==
    /\ op = "targetSetpoint"
    /\ this.integrator # R(0)
    /\ this.lastSetpoint # R(0)
    /\ this.sample_timer.wall = 0
    /\ ~hasSettled(this)

\* an object whose sampling timer has run for w ticks
AfterTicks(self, w) == [self EXCEPT !.sample_timer.wall = w, !.performance_timer.wall = w]

\* C9: a copy has the gains, the four limits, integrator, lastSetpoint,
\* peakTime, settlingTime and percentOvershoot of the original, and after the
\* same targetSetpoint call the two return the same value from calc for the
\* same process variable and timer readings.
C9_CopyEquivalent ==
    copies # << >> =>
        LET c == copies[1]
        IN  /\ c.kp = this.kp
            /\ c.ki = this.ki
            /\ c.kd = this.kd
            /\ c.lowerInputLimit = this.lowerInputLimit
            /\ c.upperInputLimit = this.upperInputLimit
            /\ c.lowerOutputLimit = this.lowerOutputLimit
            /\ c.upperOutputLimit = this.upperOutputLimit
            /\ c.integrator = this.integrator
            /\ c.lastSetpoint = this.lastSetpoint
            /\ c.peakTime = this.peakTime
            /\ c.settlingTime = this.settlingTime
            /\ c.percentOvershoot = this.percentOvershoot
            /\ \A setpoint \in Setpoints, processVariable \in ProcessVariables,
                  w \in 1..MaxWall :
                  calc(AfterTicks(targetSetpoint(c, setpoint), w),
                       processVariable).controlVariable
                  = calc(AfterTicks(targetSetpoint(this, setpoint), w),
                         processVariable).controlVariable

\* C10: for lo < hi, limiter(x, lo, hi) lies in [lo, hi], is x when
\* lo <= x <= hi, lo when x < lo and hi when x > hi.
C10_LimiterBounds ==
    (op = "limiter" /\ Less(lim.lowerLimit, lim.upperLimit)) =>
        /\ InRange(lim.result, lim.lowerLimit, lim.upperLimit)
        /\ InRange(lim.value, lim.lowerLimit, lim.upperLimit) => lim.result = lim.value
        /\ Less(lim.value, lim.lowerLimit) => lim.result = lim.lowerLimit
        /\ Less(lim.upperLimit, lim.value) => lim.result = lim.upperLimit

\* a value above the upper limit was capped
C10_Witness ==
    /\ op = "limiter"
    /\ lim.value = R(15)
    /\ lim.lowerLimit = Rat(-1, 2)
    /\ lim.upperLimit = Rat(7, 2)
    /\ lim.result = Rat(7, 2)

\* C11: for lo <= hi (equal limits included), limiting the result of limiter
\* again gives the same result.
C11_LimiterIdempotent ==
    (op = "limiter" /\ LessEq(lim.lowerLimit, lim.upperLimit)) =>
        limiter(lim.result, lim.lowerLimit, lim.upperLimit) = lim.result

\* a capped value, which a second application leaves at the limit
C11_Witness ==
    /\ op = "limiter"
    /\ lim.value = R(-11)
    /\ lim.lowerLimit = R(-10)
    /\ lim.upperLimit = R(10)
    /\ lim.result = R(-10)

\* calc can be called: the setpoint and the sampling time are not zero
CalcCallable == this.setpoint # R(0) /\ this.sample_timer.wall > 0

\* kp*error + ki*integrator - kd*differentiator of a calc(processVariable)
\* call in the current state, computed from the fields, without limiter
Unclamped(processVariable) ==
    LET error == Sub(this.setpoint, processVariable)
        dt == Rat(this.sample_timer.wall, TicksPerSec)
    IN  Sub(Add(Mul(this.kp, error),
                Mul(this.ki, Add(this.integrator, Mul(error, dt)))),
            Mul(this.kd, Div(Sub(this.setpoint, this.lastSetpoint), dt)))

DisabledPair == <<R(-1), R(-1)>>

\* C12: limiter(x, c, c) = x; the default and the gains-only constructor leave
\* both limit pairs at (-1, -1) and the gains+output-limits constructor
\* leaves the input limits at (-1, -1); with equal input limits
\* targetSetpoint stores its target unchanged, and with equal output limits
\* calc returns kp*error + ki*integrator - kd*differentiator unclamped.
C12_EqualLimitsDisable ==
    /\ \A x \in LimiterValues, c \in LimiterValues : limiter(x, c, c) = x
    /\ \A c \in {PIDController0} \cup {PIDController3(g[1], g[2], g[3]) : g \in GainChoices} :
          /\ <<c.lowerInputLimit, c.upperInputLimit>> = DisabledPair
          /\ <<c.lowerOutputLimit, c.upperOutputLimit>> = DisabledPair
          /\ \A t \in Setpoints : getSetpoint(targetSetpoint(c, t)) = t
    /\ \A g \in GainChoices, o \in OutputLimitChoices :
          LET c == PIDController5(g[1], g[2], g[3], o[1], o[2])
          IN  /\ <<c.lowerInputLimit, c.upperInputLimit>> = DisabledPair
              /\ \A t \in Setpoints : getSetpoint(targetSetpoint(c, t)) = t
    /\ (op = "targetSetpoint" /\ this.lowerInputLimit = this.upperInputLimit) =>
          getSetpoint(this) = arg[1]
    /\ (CalcCallable /\ this.lowerOutputLimit = this.upperOutputLimit) =>
          \A processVariable \in ProcessVariables :
              calc(this, processVariable).controlVariable = Unclamped(processVariable)

\* with all limits at (-1, -1): a target above 8 stored as given and a
\* returned value below -10
C12_Witness ==
    /\ op = "calc"
    /\ <<this.lowerInputLimit, this.upperInputLimit>> = DisabledPair
    /\ <<this.lowerOutputLimit, this.upperOutputLimit>> = DisabledPair
    /\ getSetpoint(this) = R(20)
    /\ Less(ret[1], R(-10))

\* the members outside changed are the same after the step as before it
Frame(changed) == \A f \in (DOMAIN this) \ changed : this'[f] = this[f]

\* C13: setGains changes only kp, ki, kd; setInputLimits only the two input
\* limits (the stored setpoint is not clamped again); setOutputLimits only the
\* two output limits (the stored integrator is not clamped again); the
\* episode fields and the timers stay as they are.
C13_ConfigurationFrame ==
    [][ /\ SetGains =>
            /\ Frame({"kp", "ki", "kd"})
            /\ <<getKp(this'), getKi(this'), getKd(this')>> \in GainChoices
        /\ SetInputLimits =>
            /\ Frame({"lowerInputLimit", "upperInputLimit"})
            /\ <<this'.lowerInputLimit, this'.upperInputLimit>> \in InputLimitChoices
        /\ SetOutputLimits =>
            /\ Frame({"lowerOutputLimit", "upperOutputLimit"})
            /\ <<this'.lowerOutputLimit, this'.upperOutputLimit>> \in OutputLimitChoices
      ]_vars

\* setOutputLimits(-10, 10) has left an integrator below -10 in place, and an
\* earlier setInputLimits(2, 8) has left the setpoint 20 in place
C13_Witness ==
    /\ op = "setOutputLimits"
    /\ this.lowerOutputLimit = R(-10)
    /\ this.upperOutputLimit = R(10)
    /\ Less(this.integrator, R(-10))
    /\ this.lowerInputLimit = R(2)
    /\ this.upperInputLimit = R(8)
    /\ getSetpoint(this) = R(20)

\* C14: a calc(processVariable) call with non-zero setpoint and sampling
\* interval dt > 0 leaves integrator = limiter(old integrator + error*dt) and
\* returns limiter(kp*error + ki*(new integrator) - kd*(setpoint -
\* lastSetpoint)/dt), both limited by the output limits, where
\* error = setpoint - processVariable.
C14_PIDStep ==
    [][ Calc =>
          LET error == Sub(this.setpoint, arg'[1])
              dt == elapsed(this.sample_timer)
              lo == this.lowerOutputLimit
              hi == this.upperOutputLimit
              newIntegrator == limiter(Add(this.integrator, Mul(error, dt)), lo, hi)
              derivative == Div(Sub(this.setpoint, this.lastSetpoint), dt)
          IN  /\ this'.integrator = newIntegrator
              /\ ret' = << limiter(Sub(Add(Mul(this.kp, error), Mul(this.ki, newIntegrator)),
                                       Mul(this.kd, derivative)), lo, hi) >>
      ]_vars

\* the second calc(19) of an episode with setpoint 5, gains (1, 2, 3) and no
\* output limits, half a second after the first: error -14, integrator from
\* -7 to -14, returned value -14 + 2*(-14)
C14_Witness ==
    /\ op = "calc"
    /\ calls = 2
    /\ this.ki = R(2)
    /\ getSetpoint(this) = R(5)
    /\ this.integrator = R(-14)
    /\ arg = <<R(19)>>
    /\ ret = <<R(-42)>>

\* what calc(processVariable) returns in the current state when the gain kd
\* is replaced
ReturnedWithKd(kd, processVariable) ==
    calc(setGains(this, getKp(this), getKi(this), kd), processVariable).controlVariable

\* C15: after every calc lastSetpoint equals setpoint; unless targetSetpoint
\* or reset has changed the stored setpoint since the last calc, the next
\* calc has a zero derivative term: it returns
\* limiter(kp*error + ki*integrator), whatever kd is.
C15_LastSetpoint ==
    /\ op = "calc" => this.lastSetpoint = getSetpoint(this)
    /\ ~setpointChanged =>
          /\ this.lastSetpoint = getSetpoint(this)
          /\ CalcCallable =>
                \A processVariable \in ProcessVariables :
                    LET r == calc(this, processVariable)
                        error == Sub(getSetpoint(this), processVariable)
                    IN  /\ r.controlVariable =
                              limiter(Add(Mul(this.kp, error), Mul(this.ki, r.self.integrator)),
                                      this.lowerOutputLimit, this.upperOutputLimit)
                        /\ \A kd \in {R(0), R(3), R(7)} :
                              ReturnedWithKd(kd, processVariable) = r.controlVariable

\* the second calc of an episode, with kd = 3 and a non-zero returned value
C15_Witness ==
    /\ op = "calc"
    /\ calls = 2
    /\ Len(reports) = 0
    /\ ~setpointChanged
    /\ getKd(this) = R(3)
    /\ getSetpoint(this) = R(-3)
    /\ ret = <<R(-10)>>

\* C16: the sampling interval of a calc is the time since the last calc
\* returned or targetSetpoint was called, whichever is later: the running
\* sampling timer reads that time, and calc adds error times that time to the
\* integrator, so time that passed before a targetSetpoint is not added.
C16_SamplingInterval ==
    /\ ~this.sample_timer.is_stopped => this.sample_timer.wall = sinceSample
    /\ CalcCallable =>
          \A processVariable \in ProcessVariables :
              calc(this, processVariable).self.integrator =
                  limiter(Add(this.integrator,
                              Mul(Sub(getSetpoint(this), processVariable),
                                  Rat(sinceSample, TicksPerSec))),
                          this.lowerOutputLimit, this.upperOutputLimit)

\* calc(19) under setpoint 5, then targetSetpoint(20), then calc(19), each
\* calc half a second after the targetSetpoint before it: -7 + 1/2
C16_Witness ==
    /\ op = "calc"
    /\ calls = 2
    /\ getSetpoint(this) = R(20)
    /\ arg = <<R(19)>>
    /\ this.integrator = Rat(-13, 2)
    /\ sinceSample = 0

\* C17: when both peakTime and settlingTime are recorded, peakTime <=
\* settlingTime; once settled, the performance timer is stopped at the
\* settling time, so a calc that detects an overshoot then records the
\* settling time as peakTime.
C17_PeakBeforeSettling ==
    /\ (this.peakTime # R(-1) /\ hasSettled(this)) =>
          LessEq(this.peakTime, this.settlingTime)
    /\ (hasSettled(this) /\ CalcCallable) =>
          \A processVariable \in ProcessVariables :
              overshoots(this, Sub(Div(processVariable, getSetpoint(this)), R(1))) =>
                  calc(this, processVariable).self.peakTime = this.settlingTime

\* settled by the first calc without a peak, half a second after
\* targetSetpoint; the peak found by the second calc, half a second later,
\* carries the settling time
C17_Witness ==
    /\ op = "calc"
    /\ calls = 2
    /\ reports = << <<R(-1), R(0), Rat(1, 2)>> >>
    /\ this.settlingTime = Rat(1, 2)
    /\ this.peakTime = Rat(1, 2)
    /\ this.performance_timer.is_stopped

\* C18: either peakTime = -1 and percentOvershoot = 0, or peakTime >= 0 and
\* percentOvershoot > 1; percentOvershoot is never in (0, 1].
C18_OvershootSentinels ==
    \/ this.peakTime = R(-1) /\ this.percentOvershoot = R(0)
    \/ LessEq(R(0), this.peakTime) /\ Less(R(1), this.percentOvershoot)

\* calc(22) under setpoint 20 has recorded the ratio 1.1
C18_Witness ==
    /\ op = "calc"
    /\ arg = <<R(22)>>
    /\ this.percentOvershoot = Rat(11, 10)
    /\ LessEq(R(0), this.peakTime)
    /\ ~hasSettled(this)

\* C19: calc leaves kp, ki, kd, the four limits and setpoint as they are; only
\* integrator, lastSetpoint, peakTime, settlingTime, percentOvershoot and the
\* two timers may change.
C19_CalcFrame ==
    [][ Calc => Frame({"integrator", "lastSetpoint", "peakTime", "settlingTime",
                       "percentOvershoot", "sample_timer", "performance_timer"}) ]_vars

\* a calc that changed the integrator while the setpoint 20, stored before
\* the input limits (2, 8) were set, stayed as it was
C19_Witness ==
    /\ op = "calc"
    /\ calls = 1
    /\ this.lowerInputLimit = R(2)
    /\ this.upperInputLimit = R(8)
    /\ getSetpoint(this) = R(20)
    /\ this.lastSetpoint = R(20)
    /\ this.integrator = R(-1)

====
